---- MODULE Spec2Model ----
(***************************************************************************)
(* A model of the RESP key/value server with single-leader replication.    *)
(*                                                                         *)
(* Spec       : one server process (src/main.rs) with its accepted client  *)
(*              connections, the shared store and replication state        *)
(*              (src/db.rs, src/replication.rs), the connection registry   *)
(*              (src/connection.rs) and the command handlers               *)
(*              (src/commands.rs).  Every await point of a handler is a    *)
(*              separate step, so handlers of different connections        *)
(*              interleave exactly where the tasks can be suspended.       *)
(* WorkerSpec : the replica worker (src/replication.rs) talking to an      *)
(*              arbitrary upstream.                                        *)
(***************************************************************************)
EXTENDS Integers, Sequences, FiniteSets, TLC

\* ------------------------------------------------------------------ bounds
\* Commands read by the server over all connections in one behaviour.
MaxCmds == 3
\* The clock runs from 0 to MaxTime.
MaxTime == 1

\* Timestamps are unsigned integers below TsMod (2^128 in the source); the
\* clock stays below it, a deadline computed from a duration need not.
TsMod == MaxTime + 2

\* Peer addresses ("host:port" strings in the source).
Addrs == {"c1", "c2"}
Keys == {"k1", "k2"}
Values == {"v1"}
\* The replication identifier of this server and the one a fresh replica sends.
MasterReplId == "8371b4fb1155b71f4a04d3e1bc3e18c4a990aeeb"
ReplIds == {"?", MasterReplId}
\* Option<T>: None is <<>>, Some(x) is <<x>>.
None == <<>>
Some(x) == <<x>>
\* Durations a SET can carry, already multiplied by the unit.
Durations == {None, Some(1), Some(TsMod - 1)}

VARIABLES
    role,              \* ReplicationInfo.role
    now,               \* what get_unix_ts_millis() returns
    store,             \* RedisState.db
    replicas,          \* ReplicationInfo.replicas
    connected_slaves,  \* ReplicationInfo.connected_slaves
    dbLock,            \* holder of the Mutex<RedisState>, None when free
    read_connections,  \* keys of ConnectionManager.read_connections
    write_connections, \* keys of ConnectionManager.write_connections
    wlock,             \* per address: holder of the Mutex<WriteConnection>
    peerOpen,          \* per address: the peer has not closed its socket
    task,              \* per address: the handle_conn task of that connection
    cmds,              \* number of frames read so far
    lastSet,           \* per key: time, duration and value of the last SET applied
    commits,           \* number of SETs applied to the store so far
    lastRecv           \* per address: number of the last SET whose frame was written to it

\* ---------------------------------------------------------------- replica worker
VARIABLES
    wpc,               \* position of the replica worker
    wsent,             \* frames the worker wrote upstream
    wrecv,             \* what each read_frame of the handshake returned
    upstreamEof,       \* the upstream closed its side
    wstore,            \* the replica's store
    wcmd,              \* what from_frame made of the last frame of the apply loop
    wire               \* frames a primary of this program wrote to the worker's socket, unread

\* ---------------------------------------------------------------- registry calls
VARIABLES
    call               \* the last call made on the ConnectionManager and its result

\* ---------------------------------------------------------------- one ReadConnection
VARIABLES
    peerFrame,         \* the frame the peer's writer was given
    rf_expect_file,    \* the argument of the first read_frame call
    stream,            \* bytes of the peer the socket has not handed over yet
    streamFin,         \* the peer closed its socket after them
    buffer,            \* ReadConnection.buffer
    rfpc,              \* position of read_frame
    rfres,             \* what the last read_frame call returned
    rfn                \* number of read_frame calls that returned

vars == <<role, now, store, replicas, connected_slaves, dbLock,
          read_connections, write_connections, wlock, peerOpen, task, cmds,
          lastSet, commits, lastRecv, wpc, wsent, wrecv, upstreamEof, wstore, wcmd,
          wire, call, peerFrame, rf_expect_file, stream, streamFin, buffer, rfpc, rfres, rfn>>

serverVars == <<role, now, store, replicas, connected_slaves, dbLock,
                read_connections, write_connections, wlock, peerOpen, task, cmds,
                lastSet, commits, lastRecv>>

workerVars == <<wpc, wsent, wrecv, upstreamEof, wstore, wcmd, wire>>

registryVars == <<call>>

codecVars == <<peerFrame, rf_expect_file, stream, streamFin, buffer, rfpc, rfres, rfn>>

\* ------------------------------------------------------------------ frames
Simple(s) == [t |-> "Simple", s |-> s]
Error(e) == [t |-> "Error", e |-> e]
Bulk(b) == [t |-> "Bulk", b |-> b]
Array(a) == [t |-> "Array", a |-> a]
File(f) == [t |-> "File", f |-> f]
Integer(i) == [t |-> "Integer", i |-> i]
Null == [t |-> "Null"]

EMPTY_RDB_FILE_BYTES == "rdb"

OkFrame == Simple("OK")
SetFrame(k, v) == Array(<<Bulk(Some("SET")), Bulk(Some(k)), Bulk(Some(v))>>)
FullResyncFrame(id, off) == Simple("FULLRESYNC " \o id \o " " \o ToString(off))

\* ------------------------------------------------------------------ store
insert_nothing(db, key, value, expiry) == db
insert(db, key, value, expiry) == [db EXCEPT ![key] = Some([val |-> value, exp |-> expiry])]
get(db, key) == db[key]
remove(db, key) == [db EXCEPT ![key] = None]

\* ------------------------------------------------------------------ replication state
get_replication_id == MasterReplId
get_replication_offset == 0
get_replicas == replicas
add_replica_twice(list, addr) == Append(Append(list, addr), addr)
add_replica_list(list, addr) == Append(list, addr)

get_info_bytes ==
    "role:" \o role \o " connected_slaves:" \o ToString(connected_slaves)


\* ------------------------------------------------------------------ commands
\* A parsed command (Command::from_frame): the fields a kind does not use are
\* empty; section holds the section of INFO and the option of REPLCONF.
Cmd(kind, key, val, dur, replid, section) ==
    [kind |-> kind, key |-> key, val |-> val, dur |-> dur, replid |-> replid,
     section |-> section]
NoCmd == Cmd("none", "", "", None, "", "")

SetCmds == {Cmd("SET", k, v, d, "", "") : k \in Keys, v \in Values, d \in Durations}
GetCmds == {Cmd("GET", k, "", None, "", "") : k \in Keys}
PsyncCmds == {Cmd("PSYNC", "", "", None, id, "") : id \in ReplIds}
InfoCmds == {Cmd("INFO", "", "", None, "", s) : s \in {"replication", "keyspace"}}
Commands == SetCmds \cup GetCmds \cup PsyncCmds \cup InfoCmds
\* REPLCONF listening-port <port>, capa <names>, getack <anything>.
ReplConfCmds ==
    {Cmd("REPLCONF", "", "", None, "", o) : o \in {"listening-port", "capa", "getack"}}
\* A command name from_frame does not know: Command::Unknown.
UnknownCmd == Cmd("UNKNOWN", "", "", None, "", "")
\* A frame from_frame makes no command of.
InvalidCmd == Cmd("invalid", "", "", None, "", "")

\* Frames Command::from_frame rejects, and what it does with them: it
\* returns Err with a message, or panics (None) on an empty array
\* (&array[0]) and on an expiry that is no number (parse::<u128>().unwrap()).
BadFrames ==
    {"not_array", "argc", "arg_type", "replconf_option", "empty_array", "px_not_number"}
from_frame_err(r) ==
    CASE r = "not_array" -> Some("Need a RESP array as command")
      [] r = "argc" -> Some("ERR: Wrong number of arguments")
      [] r = "arg_type" -> Some("ERR: Wrong argument")
      [] r = "replconf_option" -> Some("ERR: Wrong argument for REPLCONF")
      [] OTHER -> None

\* ------------------------------------------------------------------ tasks
\* pc: "idle"     the connection is not accepted yet
\*     "reading"  in ConnectionManager::read_frame, waiting for the next frame
\*     "apply"    the command is parsed; handlers that lock wait for the store mutex
\*     "w_get"    write_frame: about to look the address up (get_write_conn)
\*     "w_lock"   write_frame: waiting for the per-connection write mutex
\*     "w_io"     write_frame: holding the write mutex, socket write in progress
\*     "eof"      handle_conn returned Ok (EOF)
\*     "closed"   handle_conn returned the Err of a command's apply or of the
\*                write of an error reply
\*     "read_err" handle_conn returned the Err of read_frame
\*     "panicked" the task panicked
\* stage: which write of the handler is in progress ("parse_err": the error
\* reply handle_conn writes for a frame from_frame rejected, with the message
\* in got); reps, ri: the local copy
\* of the replica list and the loop index of Set::replicate; got: the value
\* Get::apply read; n: the number of the SET among the SETs applied to the
\* store; log: the write_frame calls of the current handler that
\* have returned, with their result.  The locals are dropped when the handler
\* returns.
IdleTask == [pc |-> "idle", cmd |-> NoCmd, stage |-> "", reps |-> <<>>, ri |-> 0,
             got |-> "", n |-> 0, log |-> <<>>]

Running(t) == t.pc \in {"apply", "w_get", "w_lock", "w_io"}
Writing(t) == t.pc \in {"w_get", "w_lock", "w_io"}
Finished(t) == t.pc \in {"reading", "eof", "closed", "read_err", "panicked"}
Returned(pc) == [IdleTask EXCEPT !.pc = pc]

\* Destination and frame of the write_frame call in progress.
WDst(a, t) == IF t.stage = "set_repl" THEN t.reps[t.ri] ELSE a

WFrame(t) ==
    CASE t.stage = "set_repl" -> SetFrame(t.cmd.key, t.cmd.val)
      [] t.stage = "set_ok" -> OkFrame
      [] t.stage = "get_val" -> Bulk(Some(t.got))
      [] t.stage = "get_nil" -> Bulk(None)
      [] t.stage = "info" -> Bulk(Some(get_info_bytes))
      [] t.stage = "info_err" -> Error("ERR: Invalid section")
      [] t.stage = "psync_line" ->
            FullResyncFrame(get_replication_id, get_replication_offset)
      [] t.stage = "psync_file" -> File(EMPTY_RDB_FILE_BYTES)
      [] t.stage = "parse_err" -> Error(t.got)
      [] t.stage = "replconf_ok" -> OkFrame

\* db.lock().await returns once the store mutex is free.
store_lock_any == TRUE
store_lock_free == dbLock = None

\* conn.lock().await on a write half returns once its mutex is free; the read
\* half of the same connection has a mutex of its own.
read_half_held(addr) == task[addr].pc = "reading"
write_half_any(dst) == TRUE
write_half_shared(dst) == wlock[dst] = None /\ ~read_half_held(dst)
write_half_free(dst) == wlock[dst] = None

\* The guard of the store mutex is dropped when the handler returns or unwinds.
release_kept(a) == dbLock
Release(a) == IF dbLock = Some(a) THEN None ELSE dbLock

\* ------------------------------------------------------------------ Set::apply
\* ts = get_unix_ts_millis() + duration, in the width of the timestamp.
overflows(t, d) == t + d >= TsMod
deadline(t, d) == (t + d) % TsMod
\* The addition traps in a build with overflow checks and wraps in one
\* without: TRUE is the trap.
OverflowOutcomes(dur) ==
    IF dur # None /\ overflows(now, dur[1]) THEN {TRUE, FALSE} ELSE {FALSE}

\* Get::apply: valid = ts > now for an entry with an expiry, true without.
valid_ge(entry, t) == entry.exp = None \/ entry.exp[1] >= t
valid(entry, t) == entry.exp = None \/ entry.exp[1] > t

\* Psync::apply registers the peer after the File frame was written.
psync_registers_early(stage, ok) == stage = "psync_line" /\ ok
psync_registers_always(stage, ok) == stage = "psync_file"
psync_registers(stage, ok) == stage = "psync_file" /\ ok

\* The state of the handler after a write_frame call returned ok: the next
\* await point, or "reading" when the handler returns Ok(()).
after_ok(t) ==
    CASE t.stage = "set_repl" /\ t.ri < Len(t.reps) ->
            [t EXCEPT !.pc = "w_get", !.ri = t.ri + 1]
      [] t.stage = "set_repl" /\ t.ri >= Len(t.reps) ->
            [t EXCEPT !.pc = "w_get", !.stage = "set_ok"]
      [] t.stage = "psync_line" -> [t EXCEPT !.pc = "w_get", !.stage = "psync_file"]
      [] OTHER -> Returned("reading")


\* ------------------------------------------------------------------ ConnectionManager
\* get_read_conn, get_write_conn: the entry of the address in the map, if any.
get_any_conn(map, addr) == Some(addr)
get_read_conn(map, addr) == IF addr \in map THEN Some(addr) ELSE None
get_write_conn(map, addr) == IF addr \in map THEN Some(addr) ELSE None

\* A call on the registry: res is its result, frame the frame written or
\* read, io whether a socket was read or written.
Call(op, addr, expect_file, frame, res, io) ==
    [op |-> op, addr |-> addr, expect_file |-> expect_file, frame |-> frame,
     res |-> res, io |-> io]
NoFrame == Bulk(None)
NoCall == Call("none", "", FALSE, NoFrame, "", FALSE)

\* ------------------------------------------------------------------ Init
\* A master: no upstream, so no replica worker is started.
Init ==
    /\ role = "master"
    /\ now = 0
    /\ store = [k \in Keys |-> None]
    /\ replicas = <<>>
    /\ connected_slaves = 0
    /\ dbLock = None
    /\ read_connections = {}
    /\ write_connections = {}
    /\ wlock = [a \in Addrs |-> None]
    /\ peerOpen = [a \in Addrs |-> TRUE]
    /\ task = [a \in Addrs |-> IdleTask]
    /\ cmds = 0
    /\ lastSet = [k \in Keys |-> None]
    /\ commits = 0
    /\ lastRecv = [a \in Addrs |-> 0]
    /\ wpc = [op |-> "off", n |-> 0]
    /\ wsent = <<>>
    /\ wrecv = <<>>
    /\ upstreamEof = FALSE
    /\ wstore = [k \in Keys |-> None]
    /\ wcmd = NoCmd
    /\ wire = <<>>
    /\ call = NoCall
    /\ peerFrame = Null
    /\ rf_expect_file = FALSE
    /\ stream = <<>>
    /\ streamFin = FALSE
    /\ buffer = <<>>
    /\ rfpc = "off"
    /\ rfres = [kind |-> "-"]
    /\ rfn = 0

\* ------------------------------------------------------------------ environment
\* The clock advances.
Tick ==
    /\ now < MaxTime
    /\ now + 1 < TsMod
    /\ now' = now + 1
    /\ UNCHANGED <<role, store, replicas, connected_slaves, dbLock,
                   read_connections, write_connections, wlock, peerOpen, task,
                   cmds, lastSet, commits, lastRecv>>
    /\ UNCHANGED workerVars
    /\ UNCHANGED registryVars
    /\ UNCHANGED codecVars

\* The peer closes its socket.
PeerClose(a) ==
    /\ task[a].pc # "idle"
    /\ peerOpen[a]
    /\ peerOpen' = [peerOpen EXCEPT ![a] = FALSE]
    /\ UNCHANGED <<role, now, store, replicas, connected_slaves,
                   dbLock, read_connections, write_connections, wlock, task, cmds,
                   lastSet, commits, lastRecv>>
    /\ UNCHANGED workerVars
    /\ UNCHANGED registryVars
    /\ UNCHANGED codecVars

\* ------------------------------------------------------------------ main / handle_conn
\* listener.accept, ConnectionManager::add and the spawn of handle_conn.
Accept(a) ==
    /\ task[a].pc = "idle"
    /\ read_connections' = read_connections \cup {a}
    /\ write_connections' = write_connections \cup {a}
    /\ task' = [task EXCEPT ![a].pc = "reading"]
    /\ UNCHANGED <<role, now, store, replicas, connected_slaves,
                   dbLock, wlock, peerOpen, cmds, lastSet, commits, lastRecv>>
    /\ UNCHANGED workerVars
    /\ UNCHANGED registryVars
    /\ UNCHANGED codecVars

\* read_frame returns a frame and Command::from_frame parses it into c.
ReadFrame(a, c) ==
    /\ task[a].pc = "reading"
    /\ peerOpen[a]
    /\ cmds < MaxCmds
    /\ cmds' = cmds + 1
    /\ task' = [task EXCEPT ![a] = [IdleTask EXCEPT !.pc = "apply", !.cmd = c]]
    /\ UNCHANGED <<role, now, store, replicas, connected_slaves,
                   dbLock, read_connections, write_connections, wlock, peerOpen,
                   lastSet, commits, lastRecv>>
    /\ UNCHANGED workerVars
    /\ UNCHANGED registryVars
    /\ UNCHANGED codecVars

\* read_frame returns None: the loop of handle_conn ends and it returns Ok.
ReadEOF(a) ==
    /\ task[a].pc = "reading"
    /\ ~peerOpen[a]
    /\ task' = [task EXCEPT ![a] = Returned("eof")]
    /\ UNCHANGED <<role, now, store, replicas, connected_slaves,
                   dbLock, read_connections, write_connections, wlock, peerOpen,
                   cmds, lastSet, commits, lastRecv>>
    /\ UNCHANGED workerVars
    /\ UNCHANGED registryVars
    /\ UNCHANGED codecVars

\* handle_conn, Err arm of the match on from_frame: the error is written back
\* as an Error frame.
on_parse_err_close(t, msg) == [t EXCEPT !.pc = "closed"]
on_parse_err(t, msg) == [t EXCEPT !.pc = "w_get", !.stage = "parse_err", !.got = msg]

\* read_frame returns a frame Command::from_frame rejects.
ReadBadFrame(a, r) ==
    LET e == from_frame_err(r)
    IN  /\ task[a].pc = "reading"
        /\ peerOpen[a]
        /\ cmds < MaxCmds
        /\ cmds' = cmds + 1
        /\ task' = [task EXCEPT ![a] =
                      IF e = None THEN Returned("panicked")
                      ELSE on_parse_err([IdleTask EXCEPT !.cmd = InvalidCmd], e[1])]
        /\ UNCHANGED <<role, now, store, replicas, connected_slaves,
                       dbLock, read_connections, write_connections, wlock, peerOpen,
                       lastSet, commits, lastRecv>>
        /\ UNCHANGED workerVars
        /\ UNCHANGED registryVars
        /\ UNCHANGED codecVars

\* read_frame returns Err: the bytes the peer sent are no frame (a length
\* that is no decimal number, bytes that are no UTF-8).
ReadMalformed(a) ==
    /\ task[a].pc = "reading"
    /\ peerOpen[a]
    /\ cmds < MaxCmds
    /\ cmds' = cmds + 1
    /\ task' = [task EXCEPT ![a] = Returned("read_err")]
    /\ UNCHANGED <<role, now, store, replicas, connected_slaves,
                   dbLock, read_connections, write_connections, wlock, peerOpen,
                   lastSet, commits, lastRecv>>
    /\ UNCHANGED workerVars
    /\ UNCHANGED registryVars
    /\ UNCHANGED codecVars

\* ------------------------------------------------------------------ handlers
\* Unknown::apply returns Err without writing; handle_conn propagates it.
ApplyUnknown(a) ==
    LET t == task[a]
    IN  /\ t.pc = "apply"
        /\ t.cmd.kind = "UNKNOWN"
        /\ task' = [task EXCEPT ![a] = Returned("closed")]
        /\ UNCHANGED <<role, now, store, replicas, connected_slaves,
                       dbLock, read_connections, write_connections, wlock, peerOpen,
                       cmds, lastSet, commits, lastRecv>>
        /\ UNCHANGED workerVars
        /\ UNCHANGED registryVars
        /\ UNCHANGED codecVars

\* Set::apply up to its first write_frame: lock, insert, copy the replica list.
\* An overflowing deadline traps (the task unwinds) or wraps, by build profile.
ApplySet(a) ==
    LET t == task[a]
        c == t.cmd
        ts == IF c.dur = None THEN None ELSE Some(deadline(now, c.dur[1]))
        reps == get_replicas
    IN  /\ t.pc = "apply"
        /\ c.kind = "SET"
        /\ store_lock_free
        /\ \E trap \in OverflowOutcomes(c.dur) :
           IF trap
           THEN /\ task' = [task EXCEPT ![a] = Returned("panicked")]
                /\ UNCHANGED <<store, lastSet, dbLock, commits>>
           ELSE /\ store' = insert(store, c.key, c.val, ts)
                /\ lastSet' = [lastSet EXCEPT
                                 ![c.key] = Some([t0 |-> now, dur |-> c.dur, val |-> c.val])]
                /\ dbLock' = Some(a)
                /\ commits' = commits + 1
                /\ task' = [task EXCEPT ![a] =
                              [t EXCEPT !.pc = "w_get",
                                        !.n = commits + 1,
                                        !.stage = IF reps = <<>> THEN "set_ok" ELSE "set_repl",
                                        !.reps = reps,
                                        !.ri = IF reps = <<>> THEN 0 ELSE 1]]
        /\ UNCHANGED <<role, now, replicas, connected_slaves,
                       read_connections, write_connections, wlock, peerOpen, cmds,
                       lastRecv>>
        /\ UNCHANGED workerVars
        /\ UNCHANGED registryVars
        /\ UNCHANGED codecVars

\* Get::apply up to its write_frame: lock, look the key up, evict it when expired.
ApplyGet(a) ==
    LET t == task[a]
        c == t.cmd
        e == get(store, c.key)
        live == e # None /\ valid(e[1], now)
    IN  /\ t.pc = "apply"
        /\ c.kind = "GET"
        /\ store_lock_free
        /\ dbLock' = Some(a)
        /\ store' = IF e # None /\ ~live THEN remove(store, c.key) ELSE store
        /\ task' = [task EXCEPT ![a] =
                      [t EXCEPT !.pc = "w_get",
                                !.stage = IF live THEN "get_val" ELSE "get_nil",
                                !.got = IF live THEN e[1].val ELSE ""]]
        /\ UNCHANGED <<role, now, replicas, connected_slaves,
                       read_connections, write_connections, wlock, peerOpen, cmds,
                       lastSet, commits, lastRecv>>
        /\ UNCHANGED workerVars
        /\ UNCHANGED registryVars
        /\ UNCHANGED codecVars

\* Info::apply: the replication section locks the store, any other does not.
ApplyInfo(a) ==
    LET t == task[a]
        c == t.cmd
        locks == c.section = "replication"
    IN  /\ t.pc = "apply"
        /\ c.kind = "INFO"
        /\ locks => store_lock_free
        /\ dbLock' = IF locks THEN Some(a) ELSE dbLock
        /\ task' = [task EXCEPT ![a] =
                      [t EXCEPT !.pc = "w_get",
                                !.stage = IF locks THEN "info" ELSE "info_err"]]
        /\ UNCHANGED <<role, now, store, replicas, connected_slaves,
                       read_connections, write_connections, wlock, peerOpen, cmds,
                       lastSet, commits, lastRecv>>
        /\ UNCHANGED workerVars
        /\ UNCHANGED registryVars
        /\ UNCHANGED codecVars

\* Psync::apply: lock; a foreign replication id starts a full resync, the
\* server's own id returns Ok at once (the guard is dropped again).
ApplyPsync(a) ==
    LET t == task[a]
        c == t.cmd
        full == get_replication_id # c.replid
    IN  /\ t.pc = "apply"
        /\ c.kind = "PSYNC"
        /\ store_lock_free
        /\ dbLock' = IF full THEN Some(a) ELSE None
        /\ task' = [task EXCEPT ![a] =
                      IF full THEN [t EXCEPT !.pc = "w_get", !.stage = "psync_line"]
                      ELSE Returned("reading")]
        /\ UNCHANGED <<role, now, store, replicas, connected_slaves,
                       read_connections, write_connections, wlock, peerOpen, cmds,
                       lastSet, commits, lastRecv>>
        /\ UNCHANGED workerVars
        /\ UNCHANGED registryVars
        /\ UNCHANGED codecVars

\* ReplConf::apply: takes no lock and replies +OK whatever the option is.
ApplyReplConf(a) ==
    LET t == task[a]
    IN  /\ t.pc = "apply"
        /\ t.cmd.kind = "REPLCONF"
        /\ task' = [task EXCEPT ![a] = [t EXCEPT !.pc = "w_get", !.stage = "replconf_ok"]]
        /\ UNCHANGED <<role, now, store, replicas, connected_slaves,
                       dbLock, read_connections, write_connections, wlock, peerOpen,
                       cmds, lastSet, commits, lastRecv>>
        /\ UNCHANGED workerVars
        /\ UNCHANGED registryVars
        /\ UNCHANGED codecVars

\* ------------------------------------------------------------------ ConnectionManager::write_frame
\* What a socket write can return: a write to an open peer succeeds, a write
\* to a peer that closed its socket succeeds (the bytes are lost) or fails.
WriteOutcomes(dst) == IF peerOpen[dst] THEN {TRUE} ELSE {TRUE, FALSE}

Logged(t, dst, frame, ok) ==
    [t EXCEPT !.log = Append(t.log, [stage |-> t.stage, dst |-> dst, frame |-> frame,
                                     ok |-> ok])]

\* The peer at dst is the ReplicationWorker of a replica of this program, with
\* its socket open: what is written to dst then waits in that socket for the
\* worker's read_frame.  Any other peer keeps what it is sent to itself.
WorkerAddr == "c1"
worker_at(dst) == dst = WorkerAddr /\ wpc.op # "off" /\ peerOpen[dst]

\* The handler returns Err: handle_conn propagates it and the task ends.
failed(t) == Returned("closed")

\* get_write_conn: the address is looked up under the map mutex; a missing
\* entry makes write_frame return NotFound.
WriteGet(a) ==
    LET t == task[a]
        dst == WDst(a, t)
        found == get_write_conn(write_connections, dst) # None
    IN  /\ t.pc = "w_get"
        /\ task' = [task EXCEPT ![a] =
                      IF found THEN [t EXCEPT !.pc = "w_lock"]
                      ELSE failed(Logged(t, dst, WFrame(t), FALSE))]
        /\ dbLock' = IF found THEN dbLock ELSE Release(a)
        /\ UNCHANGED <<role, now, store, replicas, connected_slaves,
                       read_connections, write_connections, wlock, peerOpen, cmds,
                       lastSet, commits, lastRecv>>
        /\ UNCHANGED workerVars
        /\ UNCHANGED registryVars
        /\ UNCHANGED codecVars

\* conn.lock().await on the per-connection write half.
WriteLock(a) ==
    LET t == task[a]
        dst == WDst(a, t)
    IN  /\ t.pc = "w_lock"
        /\ write_half_free(dst)
        /\ wlock' = [wlock EXCEPT ![dst] = Some(a)]
        /\ task' = [task EXCEPT ![a].pc = "w_io"]
        /\ UNCHANGED <<role, now, store, replicas, connected_slaves,
                       dbLock, read_connections, write_connections, peerOpen, cmds,
                       lastSet, commits, lastRecv>>
        /\ UNCHANGED workerVars
        /\ UNCHANGED registryVars
        /\ UNCHANGED codecVars

\* WriteConnection::write_frame returns; the write guard is dropped and the
\* handler runs on to its next await point, or returns.  The last write of
\* Psync::apply is followed by add_replica, whose assertion panics on a
\* server that is not a master.
WriteIO(a) ==
    LET t == task[a]
        dst == WDst(a, t)
        frame == WFrame(t)
    IN  /\ t.pc = "w_io"
        /\ \E ok \in WriteOutcomes(dst) :
             LET t1 == Logged(t, dst, frame, ok)
                 reg == psync_registers(t.stage, ok)
                 t2 == IF ~ok THEN failed(t1)
                       ELSE IF reg /\ role # "master" THEN Returned("panicked")
                       ELSE after_ok(t1)
             IN  /\ wlock' = [wlock EXCEPT ![dst] = None]
                 /\ task' = [task EXCEPT ![a] = t2]
                 /\ dbLock' = IF Finished(t2) THEN Release(a) ELSE dbLock
                 /\ replicas' = IF reg /\ role = "master"
                                THEN add_replica_list(replicas, a) ELSE replicas
                 /\ connected_slaves' = IF reg /\ role = "master"
                                        THEN connected_slaves + 1 ELSE connected_slaves
                 /\ lastRecv' = IF t.stage = "set_repl" /\ ok
                                 THEN [lastRecv EXCEPT ![dst] = t.n] ELSE lastRecv
                 /\ wire' = IF ok /\ worker_at(dst) THEN Append(wire, frame) ELSE wire
        /\ UNCHANGED <<role, now, store, read_connections,
                       write_connections, peerOpen, cmds, lastSet, commits>>
        /\ UNCHANGED <<wpc, wsent, wrecv, upstreamEof, wstore, wcmd>>
        /\ UNCHANGED registryVars
        /\ UNCHANGED codecVars

\* ------------------------------------------------------------------ Spec
Next ==
    \/ Tick
    \/ \E a \in Addrs : PeerClose(a)
    \/ \E a \in Addrs : Accept(a)
    \/ \E a \in Addrs, c \in Commands : ReadFrame(a, c)
    \/ \E a \in Addrs : ReadEOF(a)
    \/ \E a \in Addrs : ApplySet(a)
    \/ \E a \in Addrs : ApplyGet(a)
    \/ \E a \in Addrs : ApplyInfo(a)
    \/ \E a \in Addrs : ApplyPsync(a)
    \/ \E a \in Addrs : WriteGet(a)
    \/ \E a \in Addrs : WriteLock(a)
    \/ \E a \in Addrs : WriteIO(a)

Spec == Init /\ [][Next]_vars

\* ------------------------------------------------------------------ FairSpec
\* The server under a fair scheduler, fed with full resyncs and SETs without
\* expiry.  The runtime polls every ready task, so a handler step that stays
\* possible is taken (WF); the tokio mutexes are FIFO, so a task waiting for a
\* lock that is released again and again gets it (SF).  Nothing is assumed of
\* the peers: they send and close when they like.
ReplCommands ==
    {c \in SetCmds : c.dur = None} \cup {c \in PsyncCmds : c.replid # MasterReplId}

FairNext ==
    \/ \E a \in Addrs : PeerClose(a)
    \/ \E a \in Addrs : Accept(a)
    \/ \E a \in Addrs, c \in ReplCommands : ReadFrame(a, c)
    \/ \E a \in Addrs : ReadEOF(a)
    \/ \E a \in Addrs : ApplySet(a)
    \/ \E a \in Addrs : ApplyPsync(a)
    \/ \E a \in Addrs : WriteGet(a)
    \/ \E a \in Addrs : WriteLock(a)
    \/ \E a \in Addrs : WriteIO(a)

Fairness ==
    \A a \in Addrs :
        /\ SF_vars(ApplySet(a))
        /\ SF_vars(ApplyPsync(a))
        /\ WF_vars(WriteGet(a))
        /\ SF_vars(WriteLock(a))
        /\ WF_vars(WriteIO(a))
        /\ WF_vars(ReadEOF(a))

FairSpec == Init /\ [][FairNext]_vars /\ Fairness

\* ------------------------------------------------------------------ ErrSpec
\* The server fed with unknown commands, frames from_frame rejects and bytes
\* the codec rejects, next to SETs and full resyncs.
ErrCommands ==
    {UnknownCmd, Cmd("SET", "k1", "v1", None, "", ""), Cmd("PSYNC", "", "", None, "?", "")}

ErrNext ==
    \/ \E a \in Addrs : PeerClose(a)
    \/ \E a \in Addrs : Accept(a)
    \/ \E a \in Addrs, c \in ErrCommands : ReadFrame(a, c)
    \/ \E a \in Addrs, r \in BadFrames : ReadBadFrame(a, r)
    \/ \E a \in Addrs : ReadMalformed(a)
    \/ \E a \in Addrs : ReadEOF(a)
    \/ \E a \in Addrs : ApplySet(a)
    \/ \E a \in Addrs : ApplyPsync(a)
    \/ \E a \in Addrs : ApplyUnknown(a)
    \/ \E a \in Addrs : WriteGet(a)
    \/ \E a \in Addrs : WriteLock(a)
    \/ \E a \in Addrs : WriteIO(a)

ErrSpec == Init /\ [][ErrNext]_vars

\* ------------------------------------------------------------------ ModeSpec
\* The server in either mode: started without --replicaof it is a master,
\* started with it a slave (ReplicationInfo::new).  Any client can send it a
\* PSYNC, a REPLCONF, a SET or an INFO.
ModeCommands ==
    PsyncCmds \cup ReplConfCmds
    \cup {Cmd("SET", "k1", "v1", None, "", ""), Cmd("INFO", "", "", None, "", "replication")}

ModeInit ==
    /\ role \in {"master", "slave"}
    /\ now = 0
    /\ store = [k \in Keys |-> None]
    /\ replicas = <<>>
    /\ connected_slaves = 0
    /\ dbLock = None
    /\ read_connections = {}
    /\ write_connections = {}
    /\ wlock = [a \in Addrs |-> None]
    /\ peerOpen = [a \in Addrs |-> TRUE]
    /\ task = [a \in Addrs |-> IdleTask]
    /\ cmds = 0
    /\ lastSet = [k \in Keys |-> None]
    /\ commits = 0
    /\ lastRecv = [a \in Addrs |-> 0]
    /\ wpc = [op |-> "off", n |-> 0]
    /\ wsent = <<>>
    /\ wrecv = <<>>
    /\ upstreamEof = FALSE
    /\ wstore = [k \in Keys |-> None]
    /\ wcmd = NoCmd
    /\ wire = <<>>
    /\ call = NoCall
    /\ peerFrame = Null
    /\ rf_expect_file = FALSE
    /\ stream = <<>>
    /\ streamFin = FALSE
    /\ buffer = <<>>
    /\ rfpc = "off"
    /\ rfres = [kind |-> "-"]
    /\ rfn = 0

ModeNext ==
    \/ \E a \in Addrs : PeerClose(a)
    \/ \E a \in Addrs : Accept(a)
    \/ \E a \in Addrs, c \in ModeCommands : ReadFrame(a, c)
    \/ \E a \in Addrs : ReadEOF(a)
    \/ \E a \in Addrs : ApplySet(a)
    \/ \E a \in Addrs : ApplyInfo(a)
    \/ \E a \in Addrs : ApplyPsync(a)
    \/ \E a \in Addrs : ApplyReplConf(a)
    \/ \E a \in Addrs : WriteGet(a)
    \/ \E a \in Addrs : WriteLock(a)
    \/ \E a \in Addrs : WriteIO(a)

ModeSpec == ModeInit /\ [][ModeNext]_vars

\* ------------------------------------------------------------------ LockSpec
\* The server under the fair scheduler of FairSpec, fed with one command of
\* each locking shape: SET holds the store mutex and writes to every replica
\* and to its client, PSYNC and INFO replication hold the store mutex and
\* write to their client, REPLCONF writes to its client and holds no store
\* mutex.  Socket writes complete.
LockCommands ==
    {Cmd("SET", "k1", "v1", None, "", ""), Cmd("PSYNC", "", "", None, "?", ""),
     Cmd("REPLCONF", "", "", None, "", "capa"),
     Cmd("INFO", "", "", None, "", "replication")}

LockNext ==
    \/ \E a \in Addrs : PeerClose(a)
    \/ \E a \in Addrs : Accept(a)
    \/ \E a \in Addrs, c \in LockCommands : ReadFrame(a, c)
    \/ \E a \in Addrs : ReadEOF(a)
    \/ \E a \in Addrs : ApplySet(a)
    \/ \E a \in Addrs : ApplyInfo(a)
    \/ \E a \in Addrs : ApplyPsync(a)
    \/ \E a \in Addrs : ApplyReplConf(a)
    \/ \E a \in Addrs : WriteGet(a)
    \/ \E a \in Addrs : WriteLock(a)
    \/ \E a \in Addrs : WriteIO(a)

\* A task is at one await point at a time.  Waiting for the store mutex
\* (the first step of Set, Info and Psync::apply) or for a write half, it gets
\* the mutex if the mutex is free again and again (SF: the tokio mutexes are
\* FIFO); anywhere else in a handler it is ready, and the runtime polls it (WF).
LockFairness ==
    \A a \in Addrs :
        /\ SF_vars(ApplySet(a) \/ ApplyInfo(a) \/ ApplyPsync(a))
        /\ SF_vars(WriteLock(a))
        /\ WF_vars(ApplyReplConf(a) \/ WriteGet(a) \/ WriteIO(a))

LockSpec == Init /\ [][LockNext]_vars /\ LockFairness

\* ------------------------------------------------------------------ RegistrySpec
\* The ConnectionManager by itself: add, read_frame and write_frame called
\* with any address, registered or not.
RegFrames == {OkFrame, Bulk(None), Error("ERR"), SetFrame("k1", "v1"),
              File(EMPTY_RDB_FILE_BYTES)}

\* ConnectionManager::add inserts both halves under the address.
CmAdd(a) ==
    /\ read_connections' = read_connections \cup {a}
    /\ write_connections' = write_connections \cup {a}
    /\ call' = Call("add", a, FALSE, NoFrame, "Ok", FALSE)
    /\ UNCHANGED <<role, now, store, replicas, connected_slaves, dbLock, wlock,
                   peerOpen, task, cmds, lastSet, commits, lastRecv>>
    /\ UNCHANGED workerVars
    /\ UNCHANGED codecVars

\* ConnectionManager::read_frame: without an entry Err("Connection not
\* found"); with one, what ReadConnection::read_frame returns.
CmReadFrame(a, expect_file) ==
    /\ IF get_read_conn(read_connections, a) = None
       THEN call' = Call("read_frame", a, expect_file, NoFrame, "NotFound", FALSE)
       ELSE \E r \in {"Frame", "Eof", "Err"}, f \in RegFrames :
                call' = Call("read_frame", a, expect_file,
                             IF r = "Frame" THEN f ELSE NoFrame, r, TRUE)
    /\ UNCHANGED <<role, now, store, replicas, connected_slaves, dbLock,
                   read_connections, write_connections, wlock,
                   peerOpen, task, cmds, lastSet, commits, lastRecv>>
    /\ UNCHANGED workerVars
    /\ UNCHANGED codecVars

\* ConnectionManager::write_frame: without an entry io::ErrorKind::NotFound;
\* with one, what WriteConnection::write_frame returns.
CmWriteFrame(a, f) ==
    /\ IF get_write_conn(write_connections, a) = None
       THEN call' = Call("write_frame", a, FALSE, f, "NotFound", FALSE)
       ELSE \E r \in {"Ok", "Err"} :
                call' = Call("write_frame", a, FALSE, f, r, TRUE)
    /\ UNCHANGED <<role, now, store, replicas, connected_slaves, dbLock,
                   read_connections, write_connections, wlock,
                   peerOpen, task, cmds, lastSet, commits, lastRecv>>
    /\ UNCHANGED workerVars
    /\ UNCHANGED codecVars

RegistryNext ==
    \/ \E a \in Addrs : CmAdd(a)
    \/ \E a \in Addrs, expect_file \in BOOLEAN : CmReadFrame(a, expect_file)
    \/ \E a \in Addrs, f \in RegFrames : CmWriteFrame(a, f)

RegistrySpec == Init /\ [][RegistryNext]_vars

\* ------------------------------------------------------------------ frame codec
\* Bytes are one-character strings; a buffer is a sequence of bytes and a
\* cursor position is the index of the next byte (the source's position + 1).
CR == "\r"
LF == "\n"
DELIM == <<CR, LF>>
Digits == <<"0", "1", "2", "3", "4", "5", "6", "7", "8", "9">>

is_ascii_digit(b) == \E i \in 1 .. 10 : Digits[i] = b
digit(b) == (CHOOSE i \in 1 .. 10 : Digits[i] = b) - 1

\* Result<T, frame::Error> of the cursor functions: Ok with the new position
\* and the value, Err(Incomplete), Err(Other(message)).
Ok(pos, v) == [r |-> "Ok", pos |-> pos, v |-> v]
Incomplete == [r |-> "Incomplete"]
Other(msg) == [r |-> "Other", msg |-> msg]

remaining(src, pos) == Len(src) - pos + 1

get_u8(src, pos) ==
    IF remaining(src, pos) < 1 THEN Incomplete ELSE Ok(pos + 1, src[pos])

skip(src, pos, n) ==
    IF remaining(src, pos) < n THEN Incomplete ELSE Ok(pos + n, <<>>)

\* The line from the cursor to the first CR LF at or after it; the scan stops
\* at the second to last byte of the buffer.
get_line(src, pos) ==
    LET ends == {i \in pos .. (Len(src) - 1) : src[i] = CR /\ src[i + 1] = LF}
    IN  IF ends = {} THEN Incomplete
        ELSE LET i == CHOOSE e \in ends : \A o \in ends : e <= o
             IN  Ok(i + 2, SubSeq(src, pos, i - 1))

RECURSIVE decimal_value(_)
decimal_value(line) ==
    IF line = <<>> THEN 0
    ELSE decimal_value(SubSeq(line, 1, Len(line) - 1)) * 10 + digit(line[Len(line)])

get_decimal(src, pos) ==
    LET l == get_line(src, pos)
    IN  IF l.r # "Ok" THEN l
        ELSE IF \E i \in 1 .. Len(l.v) : ~is_ascii_digit(l.v[i])
             THEN Other("Invalid decimal string")
        ELSE Ok(l.pos, decimal_value(l.v))

\* Frame::check: is a whole frame in the buffer?  The elements of an array
\* are checked with the caller's expect_file.
RECURSIVE check(_, _, _)
RECURSIVE check_elems(_, _, _, _)
check_elems(src, pos, n, expect_file) ==
    IF n = 0 THEN Ok(pos, <<>>)
    ELSE LET c == check(src, pos, expect_file)
         IN  IF c.r # "Ok" THEN c ELSE check_elems(src, c.pos, n - 1, expect_file)

check(src, pos, expect_file) ==
    LET b == get_u8(src, pos)
    IN  IF b.r # "Ok" THEN b
        ELSE IF b.v = "$" THEN
            LET len == get_decimal(src, b.pos)
            IN  IF len.r # "Ok" THEN len
                ELSE skip(src, len.pos, IF expect_file THEN len.v ELSE len.v + 2)
        ELSE IF b.v = "*" THEN
            LET len == get_decimal(src, b.pos)
            IN  IF len.r # "Ok" THEN len
                ELSE check_elems(src, len.pos, len.v, expect_file)
        ELSE LET l == get_line(src, b.pos)
             IN  IF l.r # "Ok" THEN l ELSE Ok(l.pos, <<>>)

\* str::split(' ').
RECURSIVE split(_)
split(line) ==
    LET spaces == {i \in 1 .. Len(line) : line[i] = " "}
    IN  IF spaces = {} THEN <<line>>
        ELSE LET i == CHOOSE e \in spaces : \A o \in spaces : e <= o
             IN  <<SubSeq(line, 1, i - 1)>> \o split(SubSeq(line, i + 1, Len(line)))

\* Frame::parse: the elements of an array are parsed with expect_file unset;
\* a first byte other than '$', '*', '+' starts an inline command, parsed to
\* the array of its space-separated words.
RECURSIVE parse(_, _, _)
RECURSIVE parse_elems(_, _, _, _)
parse_elems(src, pos, n, acc) ==
    IF n = 0 THEN Ok(pos, Array(acc))
    ELSE LET p == parse(src, pos, FALSE)
         IN  IF p.r # "Ok" THEN p ELSE parse_elems(src, p.pos, n - 1, Append(acc, p.v))

parse(src, pos, expect_file) ==
    LET b == get_u8(src, pos)
    IN  IF b.r # "Ok" THEN b
        ELSE IF b.v = "$" THEN
            LET len == get_decimal(src, b.pos)
            IN  IF len.r # "Ok" THEN len
                ELSE LET n == IF expect_file THEN len.v ELSE len.v + 2
                         bytes == SubSeq(src, len.pos, len.pos + len.v - 1)
                     IN  IF remaining(src, len.pos) < n THEN Incomplete
                         ELSE IF expect_file THEN Ok(len.pos + len.v, File(bytes))
                         ELSE Ok(len.pos + len.v + 2, Bulk(Some(bytes)))
        ELSE IF b.v = "*" THEN
            LET len == get_decimal(src, b.pos)
            IN  IF len.r # "Ok" THEN len
                ELSE parse_elems(src, len.pos, len.v, <<>>)
        ELSE IF b.v = "+" THEN
            LET l == get_line(src, b.pos)
            IN  IF l.r # "Ok" THEN l ELSE Ok(l.pos, Simple(l.v))
        ELSE LET l == get_line(src, b.pos)
             IN  IF l.r # "Ok" THEN l
                 ELSE LET parts == split(<<b.v>> \o l.v)
                      IN  Ok(l.pos, Array([i \in 1 .. Len(parts) |-> Bulk(Some(parts[i]))]))

\* The decimal digits of val.
RECURSIVE decimal(_)
decimal(val) ==
    IF val < 10 THEN <<Digits[val + 1]>>
    ELSE decimal(val \div 10) \o <<Digits[(val % 10) + 1]>>

write_decimal(val) == decimal(val) \o DELIM

\* WriteConnection::write_value: the bytes written for a frame; nothing for
\* an Integer, a Null and an Array.
write_value(frame) ==
    CASE frame.t = "Bulk" /\ frame.b # None ->
            <<"$">> \o write_decimal(Len(frame.b[1])) \o frame.b[1] \o DELIM
      [] frame.t = "Bulk" /\ frame.b = None -> <<"$", "-", "1">> \o DELIM
      [] frame.t = "Simple" -> <<"+">> \o frame.s \o DELIM
      [] frame.t = "Error" -> <<"-">> \o frame.e \o DELIM
      [] frame.t = "File" -> <<"$">> \o write_decimal(Len(frame.f)) \o frame.f
      [] OTHER -> <<>>

RECURSIVE write_values(_)
write_values(entries) ==
    IF entries = <<>> THEN <<>>
    ELSE write_value(Head(entries)) \o write_values(Tail(entries))

\* WriteConnection::write_frame.
write_frame(frame) ==
    IF frame.t = "Array"
    THEN <<"*">> \o write_decimal(Len(frame.a)) \o write_values(frame.a)
    ELSE write_value(frame)

\* fmt::Display of frame::Error.
to_string(err) == IF err.r = "Incomplete" THEN "stream ended early" ELSE err.msg

\* What a call of read_frame or parse_frame returns: a frame (with the number
\* of bytes to drop from the buffer), None, or an error.
GotFrame(frame, len) == [kind |-> "Frame", frame |-> frame, len |-> len]
GotNone == [kind |-> "None"]
GotErr(msg) == [kind |-> "Err", msg |-> msg]
NotCalled == [kind |-> "-"]

\* ReadConnection::parse_frame: check, then parse from the start and advance
\* the buffer by the length check found.
parse_frame(buf, expect_file) ==
    LET c == check(buf, 1, expect_file)
    IN  IF c.r = "Ok"
        THEN LET p == parse(buf, 1, expect_file)
             IN  IF p.r = "Ok" THEN GotFrame(p.v, c.pos - 1) ELSE GotErr(to_string(p))
        ELSE IF c.r = "Incomplete" THEN GotNone
        ELSE GotErr(to_string(c))

\* ReadConnection::read_frame after read_buf returned 0.
read_zero_eof(buf) == GotNone
read_zero(buf) == IF buf = <<>> THEN GotNone ELSE GotErr("Connection reset by peer")

\* ------------------------------------------------------------------ CodecSpec
\* One ReadConnection reading from a socket on which the peer's writer puts
\* the bytes of one frame.  The socket hands the bytes over in pieces of any
\* size; the peer may close before it has written them all.
\* rfpc: "parse" read_frame is at the top of its loop; "read" it awaits
\* read_buf; "ret" it has returned rfres; "off" no reader.
\* The frames given to the writer.
CodecFrames ==
    {Simple(<<"O", "K">>), Simple(<<"a", " ", "b">>), Error(<<"E", "R", "R">>), Integer(1),
     Bulk(Some(<<"a">>)), Bulk(Some(<<>>)), Bulk(Some(<<CR, LF>>)), Bulk(None),
     Array(<<>>), Array(<<Bulk(Some(<<"a">>))>>),
     Array(<<Bulk(Some(<<"S">>)), Bulk(Some(<<"k">>))>>),
     Array(<<Array(<<>>), Bulk(Some(<<"a">>))>>),
     File(<<"r", "d", "b">>), File(<<>>)}

\* expect_file of the call in progress: the first call has the value given,
\* the calls of the loops that follow (handle_conn, the apply loop) pass false.
Mode == IF rfn = 0 THEN rf_expect_file ELSE FALSE

CodecInit ==
    /\ role = "master"
    /\ now = 0
    /\ store = [k \in Keys |-> None]
    /\ replicas = <<>>
    /\ connected_slaves = 0
    /\ dbLock = None
    /\ read_connections = {}
    /\ write_connections = {}
    /\ wlock = [a \in Addrs |-> None]
    /\ peerOpen = [a \in Addrs |-> TRUE]
    /\ task = [a \in Addrs |-> IdleTask]
    /\ cmds = 0
    /\ lastSet = [k \in Keys |-> None]
    /\ commits = 0
    /\ lastRecv = [a \in Addrs |-> 0]
    /\ wpc = [op |-> "off", n |-> 0]
    /\ wsent = <<>>
    /\ wrecv = <<>>
    /\ upstreamEof = FALSE
    /\ wstore = [k \in Keys |-> None]
    /\ wcmd = NoCmd
    /\ wire = <<>>
    /\ call = NoCall
    /\ peerFrame \in CodecFrames
    /\ rf_expect_file \in BOOLEAN
    /\ stream = write_frame(peerFrame)
    /\ streamFin = FALSE
    /\ buffer = <<>>
    /\ rfpc = "parse"
    /\ rfres = NotCalled
    /\ rfn = 0

\* The peer closes its socket after k more of its bytes.
StreamFin(k) ==
    /\ ~streamFin
    /\ streamFin' = TRUE
    /\ stream' = SubSeq(stream, 1, k)
    /\ UNCHANGED <<peerFrame, rf_expect_file, buffer, rfpc, rfres, rfn>>
    /\ UNCHANGED serverVars
    /\ UNCHANGED workerVars
    /\ UNCHANGED registryVars

\* read_frame, top of the loop: parse_frame returns a frame (read_frame
\* returns it), None (read_frame goes on to read_buf) or Err (read_frame
\* returns it).
RfParse ==
    LET got == parse_frame(buffer, Mode)
    IN  /\ rfpc = "parse"
        /\ IF got.kind = "None"
           THEN /\ rfpc' = "read"
                /\ UNCHANGED <<buffer, rfres, rfn>>
           ELSE /\ rfpc' = "ret"
                /\ rfres' = got
                /\ rfn' = rfn + 1
                /\ buffer' = IF got.kind = "Frame"
                             THEN SubSeq(buffer, got.len + 1, Len(buffer))
                             ELSE buffer
        /\ UNCHANGED <<peerFrame, rf_expect_file, stream, streamFin>>
        /\ UNCHANGED serverVars
        /\ UNCHANGED workerVars
        /\ UNCHANGED registryVars

\* stream.read_buf appends k >= 1 bytes to the buffer.
RfReadBuf(k) ==
    /\ rfpc = "read"
    /\ k <= Len(stream)
    /\ buffer' = buffer \o SubSeq(stream, 1, k)
    /\ stream' = SubSeq(stream, k + 1, Len(stream))
    /\ rfpc' = "parse"
    /\ UNCHANGED <<peerFrame, rf_expect_file, streamFin, rfres, rfn>>
    /\ UNCHANGED serverVars
    /\ UNCHANGED workerVars
    /\ UNCHANGED registryVars

\* stream.read_buf returns 0: the peer has closed and all its bytes were read.
RfReadZero ==
    /\ rfpc = "read"
    /\ stream = <<>>
    /\ streamFin
    /\ rfres' = read_zero(buffer)
    /\ rfn' = rfn + 1
    /\ rfpc' = "ret"
    /\ UNCHANGED <<peerFrame, rf_expect_file, stream, streamFin, buffer>>
    /\ UNCHANGED serverVars
    /\ UNCHANGED workerVars
    /\ UNCHANGED registryVars

\* The caller got a frame and calls read_frame again.
RfCall ==
    /\ rfpc = "ret"
    /\ rfres.kind = "Frame"
    /\ rfpc' = "parse"
    /\ UNCHANGED <<peerFrame, rf_expect_file, stream, streamFin, buffer, rfres, rfn>>
    /\ UNCHANGED serverVars
    /\ UNCHANGED workerVars
    /\ UNCHANGED registryVars

CodecNext ==
    \/ \E k \in 0 .. Len(stream) : StreamFin(k)
    \/ RfParse
    \/ \E k \in 1 .. Len(stream) : RfReadBuf(k)
    \/ RfReadZero
    \/ RfCall

CodecSpec == CodecInit /\ [][CodecNext]_vars

\* ------------------------------------------------------------------ ReplicationWorker
\* wpc.op: "off" no worker (a master); "connect"; "send"/"read" with n the
\* number of the handshake frame or reply (reply 5 is the snapshot);
\* "apply" the loop over the replication stream, n the number of frames it
\* has read; "done" start returned Ok;
\* "err" start returned Err; "panicked" an assertion failed.
At(op, n) == [op |-> op, n |-> n]

listening_port == "6380"

\* The four frames of ReplicationWorker::handshake, in order.
HandshakeFrames ==
    << Array(<<Bulk(Some("PING"))>>),
       Array(<<Bulk(Some("REPLCONF")), Bulk(Some("listening-port")),
               Bulk(Some(listening_port))>>),
       Array(<<Bulk(Some("REPLCONF")), Bulk(Some("capa")), Bulk(Some("psync2"))>>),
       Array(<<Bulk(Some("PSYNC")), Bulk(Some("?")), Bulk(Some("-1"))>>) >>

\* What read_frame can parse from what an upstream sends: with expect_file
\* unset a Simple line, a Bulk or an Array (an error line "-ERR" is read as
\* an inline command, an Array); with expect_file set a '$' frame is a File.
LineReplies ==
    {Simple("PONG"), Simple("OK"), FullResyncFrame(MasterReplId, 0),
     Bulk(Some("x")), Array(<<Bulk(Some("-ERR"))>>)}
FileReplies == {File(EMPTY_RDB_FILE_BYTES), Simple("OK"), Array(<<Bulk(Some("-ERR"))>>)}
Replies(n) == IF n = 5 THEN FileReplies ELSE LineReplies

\* str::to_lowercase on the strings of the model.
to_lowercase(str) ==
    CASE str = "PONG" -> "pong"
      [] str = "OK" -> "ok"
      [] OTHER -> str

\* The string the assertion after reply n compares the lowercased line with.
asserted(n) == IF n = 1 THEN "pong" ELSE "ok"

\* The position after read_frame number n of the handshake returned r
\* (None at EOF, Some(frame) otherwise).
after_reply(n, r) ==
    LET next == IF n < 4 THEN At("send", n + 1)
                ELSE IF n = 4 THEN At("read", 5) ELSE At("apply", 0)
    IN  IF r = None THEN next
        ELSE IF n = 5 THEN (IF r[1].t = "File" THEN next ELSE At("err", n))
        ELSE IF r[1].t # "Simple" THEN At("err", n)
        ELSE IF n < 4 /\ to_lowercase(r[1].s) # asserted(n) THEN At("panicked", n)
        ELSE next

\* A replica (--replicaof given): main spawns the worker before it accepts
\* connections.
WorkerInit ==
    /\ role = "slave"
    /\ now = 0
    /\ store = [k \in Keys |-> None]
    /\ replicas = <<>>
    /\ connected_slaves = 0
    /\ dbLock = None
    /\ read_connections = {}
    /\ write_connections = {}
    /\ wlock = [a \in Addrs |-> None]
    /\ peerOpen = [a \in Addrs |-> TRUE]
    /\ task = [a \in Addrs |-> IdleTask]
    /\ cmds = 0
    /\ lastSet = [k \in Keys |-> None]
    /\ commits = 0
    /\ lastRecv = [a \in Addrs |-> 0]
    /\ wpc = At("connect", 0)
    /\ wsent = <<>>
    /\ wrecv = <<>>
    /\ upstreamEof = FALSE
    /\ wstore = [k \in Keys |-> None]
    /\ wcmd = NoCmd
    /\ wire = <<>>
    /\ call = NoCall
    /\ peerFrame = Null
    /\ rf_expect_file = FALSE
    /\ stream = <<>>
    /\ streamFin = FALSE
    /\ buffer = <<>>
    /\ rfpc = "off"
    /\ rfres = [kind |-> "-"]
    /\ rfn = 0

\* ReplicationWorker::connect: TcpStream::connect succeeds or fails.
WConnect ==
    /\ wpc.op = "connect"
    /\ \E ok \in BOOLEAN : wpc' = IF ok THEN At("send", 1) ELSE At("err", 0)
    /\ UNCHANGED <<wire, wsent, wrecv, upstreamEof, wstore, wcmd>>
    /\ UNCHANGED serverVars
    /\ UNCHANGED registryVars
    /\ UNCHANGED codecVars

\* conn.write_frame of handshake frame n; it can fail once the upstream closed.
WSend ==
    /\ wpc.op = "send"
    /\ \E ok \in (IF upstreamEof THEN {TRUE, FALSE} ELSE {TRUE}) :
         IF ok
         THEN /\ wsent' = Append(wsent, HandshakeFrames[wpc.n])
              /\ wpc' = At("read", wpc.n)
         ELSE /\ wsent' = wsent
              /\ wpc' = At("err", wpc.n)
    /\ UNCHANGED <<wire, wrecv, upstreamEof, wstore, wcmd>>
    /\ UNCHANGED serverVars
    /\ UNCHANGED registryVars
    /\ UNCHANGED codecVars

\* conn.read_frame of the handshake returns a frame.
WRecv ==
    /\ wpc.op = "read"
    /\ ~upstreamEof
    /\ \E f \in Replies(wpc.n) :
         /\ wrecv' = Append(wrecv, Some(f))
         /\ wpc' = after_reply(wpc.n, Some(f))
    /\ UNCHANGED <<wire, wsent, upstreamEof, wstore, wcmd>>
    /\ UNCHANGED serverVars
    /\ UNCHANGED registryVars
    /\ UNCHANGED codecVars

\* conn.read_frame of the handshake returns None: the upstream closed.
WRecvEof ==
    /\ wpc.op = "read"
    /\ upstreamEof' = TRUE
    /\ wrecv' = Append(wrecv, None)
    /\ wpc' = after_reply(wpc.n, None)
    /\ UNCHANGED <<wire, wsent, wstore, wcmd>>
    /\ UNCHANGED serverVars
    /\ UNCHANGED registryVars
    /\ UNCHANGED codecVars

\* conn.read_frame of the handshake returns Err (I/O or protocol error).
WRecvErr ==
    /\ wpc.op = "read"
    /\ wpc' = At("err", wpc.n)
    /\ UNCHANGED <<wire, wsent, wrecv, upstreamEof, wstore, wcmd>>
    /\ UNCHANGED serverVars
    /\ UNCHANGED registryVars
    /\ UNCHANGED codecVars

\* The apply loop reads a frame that parses to the SET command c:
\* Set::apply_replica inserts it, trapping or wrapping on an overflowing deadline.
WApplySet(c) ==
    /\ wpc.op = "apply"
    /\ wpc.n < MaxCmds
    /\ ~upstreamEof
    /\ \E trap \in OverflowOutcomes(c.dur) :
         IF trap
         THEN /\ wpc' = At("panicked", 0)
              /\ wstore' = wstore
         ELSE /\ wpc' = At("apply", wpc.n + 1)
              /\ wstore' = insert(wstore, c.key, c.val,
                                  IF c.dur = None THEN None
                                  ELSE Some(deadline(now, c.dur[1])))
    /\ wcmd' = c
    /\ UNCHANGED <<wire, wsent, wrecv, upstreamEof>>
    /\ UNCHANGED serverVars
    /\ UNCHANGED registryVars
    /\ UNCHANGED codecVars

\* Commands other than SET a frame of the stream can parse to.
SkippedCmds == GetCmds \cup ReplConfCmds \cup {UnknownCmd}

\* The apply loop reads a frame that parses to another command: the match
\* falls to its default arm, which logs and goes on.
WApplySkip(c) ==
    /\ wpc.op = "apply"
    /\ wpc.n < MaxCmds
    /\ ~upstreamEof
    /\ wpc' = At("apply", wpc.n + 1)
    /\ wcmd' = c
    /\ UNCHANGED <<wire, wsent, wrecv, upstreamEof, wstore>>
    /\ UNCHANGED serverVars
    /\ UNCHANGED registryVars
    /\ UNCHANGED codecVars

\* The apply loop reads a frame Command::from_frame rejects: an Err falls to
\* the default arm, a panic ends the worker task.
WApplyBadFrame(r) ==
    /\ wpc.op = "apply"
    /\ wpc.n < MaxCmds
    /\ ~upstreamEof
    /\ wpc' = IF from_frame_err(r) = None THEN At("panicked", 0)
              ELSE At("apply", wpc.n + 1)
    /\ wcmd' = InvalidCmd
    /\ UNCHANGED <<wire, wsent, wrecv, upstreamEof, wstore>>
    /\ UNCHANGED serverVars
    /\ UNCHANGED registryVars
    /\ UNCHANGED codecVars

\* The apply loop reads None (start returns Ok) or Err (start returns Err).
WApplyEnd ==
    /\ wpc.op = "apply"
    /\ \E eof \in BOOLEAN :
         /\ wpc' = IF eof THEN At("done", 0) ELSE At("err", 6)
         /\ upstreamEof' = (upstreamEof \/ eof)
    /\ UNCHANGED <<wire, wsent, wrecv, wstore, wcmd>>
    /\ UNCHANGED serverVars
    /\ UNCHANGED registryVars
    /\ UNCHANGED codecVars

WorkerNext ==
    \/ Tick
    \/ WConnect
    \/ WSend
    \/ WRecv
    \/ WRecvEof
    \/ WRecvErr
    \/ \E c \in SetCmds : WApplySet(c)
    \/ \E c \in SkippedCmds : WApplySkip(c)
    \/ \E r \in BadFrames : WApplyBadFrame(r)
    \/ WApplyEnd

WorkerSpec == WorkerInit /\ [][WorkerNext]_vars

\* ------------------------------------------------------------------ StreamSpec
\* A primary and a replica of this program: the worker of the replica reads
\* the frames the primary fans out to it.
\* str::parse::<u128> of a decimal string.
parse_u128(str) == CHOOSE d \in 0 .. TsMod : ToString(d) = str

\* Command::from_frame on an Array frame whose first element is SET: three
\* elements make a SET without expiry, five with PX one that expires.
set_from_frame_px(frame) ==
    Cmd("SET", frame.a[2].b[1], frame.a[3].b[1], Some(1), "", "")
set_from_frame(frame) ==
    IF Len(frame.a) = 5 /\ frame.a[4] = Bulk(Some("PX"))
    THEN Cmd("SET", frame.a[2].b[1], frame.a[3].b[1],
             Some(parse_u128(frame.a[5].b[1])), "", "")
    ELSE Cmd("SET", frame.a[2].b[1], frame.a[3].b[1], None, "", "")

\* What Get::apply answers for key from the store db at time t.
get_reply(db, key, t) ==
    LET e == get(db, key)
    IN  IF e # None /\ valid(e[1], t) THEN Bulk(Some(e[1].val)) ELSE Bulk(None)

\* Clients send SET with and without expiry and GET, on one key.
StreamCommands ==
    {c \in SetCmds \cup GetCmds : c.key = "k1"}

\* The primary after the handshake of the worker: its connection is accepted
\* and registered as a replica, the worker is in its apply loop.  cmds counts
\* the frames read from here on.
StreamInit ==
    /\ role = "master"
    /\ now = 0
    /\ store = [k \in Keys |-> None]
    /\ replicas = <<WorkerAddr>>
    /\ connected_slaves = 1
    /\ dbLock = None
    /\ read_connections = {WorkerAddr}
    /\ write_connections = {WorkerAddr}
    /\ wlock = [a \in Addrs |-> None]
    /\ peerOpen = [a \in Addrs |-> TRUE]
    /\ task = [a \in Addrs |-> IF a = WorkerAddr THEN Returned("reading") ELSE IdleTask]
    /\ cmds = 0
    /\ lastSet = [k \in Keys |-> None]
    /\ commits = 0
    /\ lastRecv = [a \in Addrs |-> 0]
    /\ wpc = At("apply", 0)
    /\ wsent = HandshakeFrames
    /\ wrecv = <<Some(Simple("PONG")), Some(OkFrame), Some(OkFrame),
                 Some(FullResyncFrame(MasterReplId, 0)), Some(File(EMPTY_RDB_FILE_BYTES))>>
    /\ upstreamEof = FALSE
    /\ wstore = [k \in Keys |-> None]
    /\ wcmd = NoCmd
    /\ wire = <<>>
    /\ call = NoCall
    /\ peerFrame = Null
    /\ rf_expect_file = FALSE
    /\ stream = <<>>
    /\ streamFin = FALSE
    /\ buffer = <<>>
    /\ rfpc = "off"
    /\ rfres = [kind |-> "-"]
    /\ rfn = 0

\* The apply loop reads the next frame the primary wrote: from_frame makes a
\* SET of it and Set::apply_replica inserts it.
WApplyStream ==
    LET c == set_from_frame(Head(wire))
    IN  /\ wpc.op = "apply"
        /\ wire # <<>>
        /\ peerOpen[WorkerAddr]
        /\ \E trap \in OverflowOutcomes(c.dur) :
             IF trap
             THEN /\ wpc' = At("panicked", 0)
                  /\ wstore' = wstore
             ELSE /\ wpc' = At("apply", wpc.n + 1)
                  /\ wstore' = insert(wstore, c.key, c.val,
                                      IF c.dur = None THEN None
                                      ELSE Some(deadline(now, c.dur[1])))
        /\ wcmd' = c
        /\ wire' = Tail(wire)
        /\ UNCHANGED <<wsent, wrecv, upstreamEof>>
        /\ UNCHANGED serverVars
        /\ UNCHANGED registryVars
        /\ UNCHANGED codecVars

StreamNext ==
    \/ Tick
    \/ \E a \in Addrs : PeerClose(a)
    \/ \E a \in Addrs : Accept(a)
    \/ \E a \in Addrs \ {WorkerAddr}, c \in StreamCommands : ReadFrame(a, c)
    \/ \E a \in Addrs : ReadEOF(a)
    \/ \E a \in Addrs : ApplySet(a)
    \/ \E a \in Addrs : ApplyGet(a)
    \/ \E a \in Addrs : WriteGet(a)
    \/ \E a \in Addrs : WriteLock(a)
    \/ \E a \in Addrs : WriteIO(a)
    \/ WApplyStream

StreamSpec == StreamInit /\ [][StreamNext]_vars


\* ================================================================== properties
Range(q) == {q[i] : i \in 1 .. Len(q)}

\* The write_frame calls handler a has made once this step is taken: the
\* locals are dropped when the handler returns, so the call that returns in
\* the step is added from the state before it (it failed iff the task closed).
LogAfter(a) ==
    LET t == task[a]
    IN  IF Finished(task'[a]) /\ t.pc \in {"w_get", "w_io"}
        THEN Append(t.log, [stage |-> t.stage, dst |-> WDst(a, t), frame |-> WFrame(t),
                            ok |-> task'[a].pc # "closed"])
        ELSE task'[a].log

\* Step of handler a in which it returns (Ok, Err or by panic).
Returns(a) == Running(task[a]) /\ Finished(task'[a])

\* C1: for every SET handled with at least one registered replica, +OK is
\* written to the client before any replication write has been awaited to
\* completion: a completed replication write is preceded by the +OK write.
C1_OkBeforeReplication ==
    \A a \in Addrs :
        LET t == task[a]
        IN  (t.cmd.kind = "SET" /\ Len(t.reps) >= 1) =>
                \A i \in 1 .. Len(t.log) :
                    t.log[i].stage = "set_repl" =>
                        \E j \in 1 .. (i - 1) : t.log[j].frame = OkFrame

\* C2: no handler is inside a socket write while it holds the store mutex.
C2_NoWriteUnderStoreLock ==
    \A a \in Addrs : task[a].pc = "w_io" => dbLock # Some(a)

\* C3: when the replication write of a SET fails, the issuing client (still
\* connected) has received or goes on to receive +OK, and its connection
\* task is not closed.
C3_ReplicationFailureKeepsClient ==
    [][\A a \in Addrs :
         LET t == task[a]
         IN  (t.cmd.kind = "SET" /\ t.stage = "set_repl" /\ t.pc \in {"w_get", "w_io"}
              /\ peerOpen[a])
             => /\ task'[a].pc # "closed"
                /\ Finished(task'[a]) =>
                     \E i \in 1 .. Len(t.log) : t.log[i].frame = OkFrame /\ t.log[i].ok
      ]_vars

\* C4: when a write to one replica fails during the fan-out of a SET, every
\* other replica of the list, also one listed after the failing one, still
\* gets its replication write before the handler returns.
C4_OtherReplicasStillServed ==
    [][\A a \in Addrs :
         LET t == task[a]
             lg == LogAfter(a)
             repl == {i \in 1 .. Len(lg) : lg[i].stage = "set_repl"}
         IN  (t.cmd.kind = "SET" /\ Returns(a) /\ \E i \in repl : ~lg[i].ok)
             => \A i \in repl, n \in 1 .. Len(t.reps) :
                    (~lg[i].ok /\ t.reps[n] # lg[i].dst)
                        => \E j \in repl : lg[j].dst = t.reps[n]
      ]_vars

\* C5: once the PSYNC of peer P has completed (P is in the replica list),
\* every SET committed afterwards writes its replication frame to P.
C5_RegisteredReplicaGetsEverySet ==
    [][\A a \in Addrs, p \in Addrs :
         LET t == task[a]
             lg == LogAfter(a)
         IN  (t.cmd.kind = "SET" /\ Writing(t) /\ Returns(a) /\ p \in Range(replicas))
             => \E i \in 1 .. Len(lg) :
                    lg[i].dst = p /\ lg[i].frame = SetFrame(t.cmd.key, t.cmd.val)
      ]_vars

\* C6: a PSYNC with a foreign replication id writes the FULLRESYNC line,
\* then the File frame, then appends the peer to the replica list; when
\* either write fails the handler stops there and the list is unchanged; the
\* list changes in no other step.
PsyncLine(a) ==
    [stage |-> "psync_line", dst |-> a,
     frame |-> Simple("FULLRESYNC " \o MasterReplId \o " 0"), ok |-> TRUE]
PsyncFile(a) ==
    [stage |-> "psync_file", dst |-> a, frame |-> File(EMPTY_RDB_FILE_BYTES), ok |-> TRUE]

C6_PsyncSteps ==
    [][/\ \A a \in Addrs :
            LET t == task[a]
                lg == LogAfter(a)
            IN  (t.cmd.kind = "PSYNC" /\ t.cmd.replid # MasterReplId /\ Returns(a))
                => IF task'[a].pc = "reading"
                   THEN /\ lg = <<PsyncLine(a), PsyncFile(a)>>
                        /\ replicas' = Append(replicas, a)
                   ELSE /\ replicas' = replicas
                        /\ \/ lg = <<[PsyncLine(a) EXCEPT !.ok = FALSE]>>
                           \/ lg = <<PsyncLine(a), [PsyncFile(a) EXCEPT !.ok = FALSE]>>
       /\ replicas' # replicas =>
            \E a \in Addrs :
                /\ task[a].cmd.kind = "PSYNC"
                /\ task[a].cmd.replid # MasterReplId
                /\ Returns(a)
                /\ task'[a].pc = "reading"
      ]_vars

\* A peer is registered and its PSYNC handler has returned.
C6_Witness ==
    \E a \in Addrs : a \in Range(replicas) /\ task[a].pc = "reading"

\* C9: a GET of a key last written by SET k v PX d at time t0 replies v if
\* and only if the time of the GET is below t0 + d, and absent otherwise.
C9_TtlSemantics ==
    [][\A a \in Addrs :
         LET t == task[a]
             t2 == task'[a]
             s == lastSet[t.cmd.key]
         IN  (t.cmd.kind = "GET" /\ t.pc = "apply" /\ t2.pc # "apply"
              /\ s # None /\ s[1].dur # None)
             => IF now < s[1].t0 + s[1].dur[1]
                THEN t2.stage = "get_val" /\ t2.got = s[1].val
                ELSE t2.stage = "get_nil"
      ]_vars

\* C10: in the steps of a GET handler the store changes only by the removal
\* of the key read, and exactly when the entry read has an expiry that is
\* less than or equal to the current time.
Expired(e, t) == e # None /\ e[1].exp # None /\ e[1].exp[1] <= t

C10_LazyEviction ==
    [][\A a \in Addrs :
         LET t == task[a]
             k == t.cmd.key
         IN  (t.cmd.kind = "GET" /\ Running(t) /\ task'[a] # t)
             => store' = IF t.pc = "apply" /\ Expired(store[k], now)
                         THEN [store EXCEPT ![k] = None]
                         ELSE store
      ]_vars

\* The second command read is a GET that found an expired entry and evicted
\* it; the other key still holds what it held.
C10_Witness ==
    \E a \in Addrs :
        /\ cmds = 2
        /\ task[a].cmd.kind = "GET"
        /\ task[a].stage = "get_nil"
        /\ lastSet[task[a].cmd.key] # None
        /\ store[task[a].cmd.key] = None

\* C11: the replication frames written to one replica are those of SETs in
\* the order in which the store applied them: each frame written to an
\* address belongs to a SET applied later than every SET whose frame was
\* written to that address before.
C11_ReplicationInCommitOrder ==
    [][\A p \in Addrs :
         lastRecv'[p] # lastRecv[p] =>
             /\ lastRecv'[p] > lastRecv[p]
             /\ lastRecv'[p] <= commits
      ]_vars

\* A replica has been written the frames of two SETs.
C11_Witness ==
    \E p \in Addrs : p \in Range(replicas) /\ lastRecv[p] = 2 /\ commits = 2


\* C12: once a SET is applied to the store while replica p is registered, the
\* frame of that SET is eventually written to p, unless p closes its
\* connection (what p's worker can read and apply is what was written).
C12_CommittedSetReachesReplica ==
    \A p \in Addrs, n \in 1 .. MaxCmds :
        (\E a \in Addrs :
             /\ task[a].cmd.kind = "SET"
             /\ task[a].n = n
             /\ p \in Range(task[a].reps)
             /\ peerOpen[p])
        ~> (lastRecv[p] = n \/ ~peerOpen[p])

\* C13: a client that stays connected and issues SET k v without expiry gets
\* +OK and its connection goes on reading for the GET; a GET k issued while
\* that SET is the last write of k (no connection wrote k since) gets Bulk(v).
C13_ReadYourWrites ==
    [][\A a \in Addrs :
         LET t == task[a]
             t2 == task'[a]
             s == lastSet[t.cmd.key]
         IN  /\ (t.cmd.kind = "SET" /\ t.cmd.dur = None /\ Writing(t) /\ Returns(a)
                 /\ peerOpen[a])
                => /\ t2.pc = "reading"
                   /\ \E i \in 1 .. Len(LogAfter(a)) :
                         LET w == LogAfter(a)[i]
                         IN  w.dst = a /\ w.frame = OkFrame /\ w.ok
             /\ (t.cmd.kind = "GET" /\ t.pc = "apply" /\ t2.pc # "apply"
                 /\ s # None /\ s[1].dur = None)
                => t2.stage = "get_val" /\ t2.got = s[1].val
      ]_vars

\* C14: a command with an unrecognised name is answered with an Error frame
\* and its connection goes on reading.
C14_UnknownCommandAnswered ==
    [][\A a \in Addrs :
         LET t == task[a]
             lg == LogAfter(a)
         IN  (t.cmd.kind = "UNKNOWN" /\ Returns(a) /\ peerOpen[a])
             => /\ task'[a].pc = "reading"
                /\ \E i \in 1 .. Len(lg) :
                      lg[i].dst = a /\ lg[i].frame.t = "Error" /\ lg[i].ok
      ]_vars

\* C15: no connection task ends on bytes the codec rejects: a malformed
\* frame is answered with an Error frame and the connection stays open.
C15_MalformedFrameKeepsConnection ==
    \A a \in Addrs : peerOpen[a] => task[a].pc # "read_err"

\* C16: a frame command parsing rejects with an error is answered by exactly
\* one write, an Error frame with the message to the connection itself; the
\* steps of that reply leave the store and the replica list unchanged and the
\* connection of a connected client returns to reading.  A command whose
\* apply returns an error closes the connection.
C16_ParseErrorsReplyApplyErrorsClose ==
    [][\A a \in Addrs :
         LET t == task[a]
             t2 == task'[a]
             lg == LogAfter(a)
         IN  /\ (t.pc = "reading" /\ t2.cmd.kind = "invalid")
                => t2.pc = "w_get" /\ t2.stage = "parse_err" /\ t2.log = <<>>
             /\ (t.stage = "parse_err" /\ t2 # t)
                => /\ store' = store
                   /\ replicas' = replicas
                   /\ Returns(a) =>
                        /\ Len(lg) = 1
                        /\ lg[1].dst = a
                        /\ lg[1].frame = Error(t.got)
                        /\ t2.pc = IF lg[1].ok THEN "reading" ELSE "closed"
                        /\ peerOpen[a] => lg[1].ok
             /\ (t.cmd.kind = "UNKNOWN" /\ t.pc = "apply" /\ t2 # t)
                => t2.pc = "closed"
      ]_vars

\* An Error reply to a rejected frame is on its way to a connected client
\* while the store holds a value and a replica is registered.
C16_Witness ==
    \E a \in Addrs :
        /\ task[a].stage = "parse_err"
        /\ task[a].pc = "w_io"
        /\ peerOpen[a]
        /\ replicas # <<>>
        /\ store["k1"] # None

\* C17: the socket writes of one frame to an address are made under that
\* address's write-half mutex, and no two tasks are inside a write to the
\* same address at once, so the bytes of two frames never interleave.
C17_WritesSerialized ==
    \A a \in Addrs :
        task[a].pc = "w_io" =>
            /\ wlock[WDst(a, task[a])] = Some(a)
            /\ \A b \in Addrs \ {a} :
                  task[b].pc = "w_io" => WDst(b, task[b]) # WDst(a, task[a])

\* A replica is being written the reply to its own command while the
\* replication frame of another client's SET waits for the same write half.
C17_Witness ==
    \E a \in Addrs, b \in Addrs :
        /\ a # b
        /\ task[a].pc = "w_io"
        /\ WDst(a, task[a]) = a
        /\ task[b].pc = "w_lock"
        /\ task[b].stage = "set_repl"
        /\ WDst(b, task[b]) = a

\* C18: a task blocked in read_frame for an address holds the read half only:
\* a task that waits for the free write half of that address can take it,
\* and a task that writes to that address can finish its write.
C18_ReadDoesNotBlockWrite ==
    \A a \in Addrs, b \in Addrs :
        (read_half_held(a) /\ Writing(task[b]) /\ WDst(b, task[b]) = a) =>
            /\ (task[b].pc = "w_lock" /\ wlock[a] = None) => ENABLED WriteLock(b)
            /\ task[b].pc = "w_io" => ENABLED WriteIO(b)

\* Another task is inside a write to an address whose own task is blocked
\* in read_frame.
C18_Witness ==
    \E a \in Addrs, b \in Addrs :
        /\ a # b
        /\ read_half_held(a)
        /\ peerOpen[a]
        /\ task[b].pc = "w_io"
        /\ WDst(b, task[b]) = a

\* C19: the registry holds an entry for an address exactly while the
\* connection of that address is open, that is, from its accept until its
\* task ends.
C19_EntryLivesWithConnection ==
    \A a \in Addrs :
        (a \in read_connections /\ a \in write_connections)
            <=> task[a].pc \notin {"idle", "eof", "closed", "read_err", "panicked"}

\* C20: read_frame and write_frame called with an address that has no entry
\* return a not-found error, touch no socket and leave both maps unchanged.
C20_MissingEntryNotFound ==
    [][/\ (call'.op = "read_frame" /\ call'.addr \notin read_connections)
            => /\ call'.res = "NotFound"
               /\ ~call'.io
               /\ UNCHANGED <<read_connections, write_connections>>
       /\ (call'.op = "write_frame" /\ call'.addr \notin write_connections)
            => /\ call'.res = "NotFound"
               /\ ~call'.io
               /\ UNCHANGED <<read_connections, write_connections>>
      ]_vars

\* A write was asked for an address without an entry while another address
\* has one.
C20_Witness ==
    /\ call.op = "write_frame"
    /\ call.res = "NotFound"
    /\ call.addr \notin write_connections
    /\ write_connections # {}

\* C21: connected_slaves is the length of the replica list, the list is
\* non-empty only on a master, the role never changes, and the list and the
\* counter change only together, by the append of one address and an
\* increment, in the step in which Psync::apply calls add_replica.
C21_ReplicaBookkeeping ==
    /\ [](/\ connected_slaves = Len(replicas)
          /\ replicas # <<>> => role = "master")
    /\ [][/\ role' = role
           /\ (replicas' # replicas \/ connected_slaves' # connected_slaves) =>
                \E a \in Addrs :
                    /\ task[a].cmd.kind = "PSYNC"
                    /\ task[a].stage = "psync_file"
                    /\ Returns(a)
                    /\ replicas' = Append(replicas, a)
                    /\ connected_slaves' = connected_slaves + 1
          ]_vars

\* Two replicas are registered on a master.
C21_Witness ==
    /\ role = "master"
    /\ Len(replicas) = 2
    /\ connected_slaves = 2

\* C29: no PSYNC handler ends in a panic: when Psync::apply reaches
\* add_replica, the role is "master".
C29_RoleAssertionHolds ==
    [][\A a \in Addrs :
         (task[a].cmd.kind = "PSYNC" /\ Running(task[a])) => task'[a].pc # "panicked"
      ]_vars

\* C28: handler tasks do not deadlock on locks.  A task that waits for the
\* store mutex, looks an address up under the registry mutex or waits for a
\* write half holds no write half; a task in a socket write holds the write
\* half of its destination and no other; a task that is not in a handler
\* holds neither the store mutex nor a write half; and every handler that
\* has started returns, so it releases every lock it took.
C28_NoLockDeadlock ==
    /\ [](\A a \in Addrs :
            LET t == task[a]
                halves == {d \in Addrs : wlock[d] = Some(a)}
            IN  /\ t.pc \in {"apply", "w_get", "w_lock"} => halves = {}
                /\ t.pc = "w_io" => halves = {WDst(a, t)}
                /\ (t.pc = "apply" \/ ~Running(t)) => dbLock # Some(a)
                /\ ~Running(t) => halves = {})
    /\ \A a \in Addrs : Running(task[a]) ~> ~Running(task[a])

\* A SET handler holds the store mutex and waits for the write half of a
\* replica while the replica's own handler, which holds no store mutex, is
\* in a socket write on that half.
C28_Witness ==
    \E a \in Addrs, b \in Addrs :
        /\ a # b
        /\ dbLock = Some(a)
        /\ task[a].pc = "w_lock"
        /\ task[a].stage = "set_repl"
        /\ WDst(a, task[a]) = b
        /\ wlock[b] = Some(b)
        /\ task[b].pc = "w_io"

\* C31: the frame fanned out for a SET is the three-element array
\* [SET, key, value] also when the SET carried an expiry; so every entry the
\* worker of a replica makes from the stream has no expiry, and a GET on the
\* replica is answered with its value at any time, also after the primary
\* has expired the key.
C31_ReplicaEntriesNeverExpire ==
    /\ \A a \in Addrs : \A i \in 1 .. Len(task[a].log) :
          task[a].log[i].dst # a
             => task[a].log[i].frame = SetFrame(task[a].cmd.key, task[a].cmd.val)
    /\ \A i \in 1 .. Len(wire) :
          /\ wire[i].t = "Array"
          /\ Len(wire[i].a) = 3
          /\ wire[i].a[1] = Bulk(Some("SET"))
    /\ \A k \in Keys :
          wstore[k] # None
             => /\ wstore[k][1].exp = None
                /\ \A t \in 0 .. MaxTime :
                      get_reply(wstore, k, t) = Bulk(Some(wstore[k][1].val))

\* A client of the primary is answered nil for a key whose SET carried an
\* expiry, while the replica holds the value the stream gave it.
C31_Witness ==
    \E a \in Addrs :
        /\ task[a].cmd.kind = "GET"
        /\ task[a].stage = "get_nil"
        /\ lastSet[task[a].cmd.key] # None
        /\ lastSet[task[a].cmd.key][1].dur # None
        /\ wstore[task[a].cmd.key] # None
        /\ get_reply(wstore, task[a].cmd.key, now) = Bulk(Some(lastSet[task[a].cmd.key][1].val))

\* C32: PSYNC appends the address of its peer to the replica list whether or
\* not the list holds it already, a SET copies the whole list, and a peer
\* with n entries in the list, its socket open, is written n copies of the
\* frame of every SET committed afterwards.
C32_DuplicateRegistrationFansOut ==
    [][\A a \in Addrs :
         LET t == task[a]
             t2 == task'[a]
             lg == LogAfter(a)
         IN  /\ (t.stage = "psync_file" /\ Returns(a) /\ t2.pc = "reading")
                => replicas' = Append(replicas, a)
             /\ (t.cmd.kind = "SET" /\ t.pc = "apply" /\ Writing(t2))
                => t2.reps = replicas
             /\ \A p \in Addrs :
                  (t.cmd.kind = "SET" /\ Writing(t) /\ Returns(a) /\ peerOpen[p])
                  => Cardinality({i \in 1 .. Len(lg) :
                                    /\ lg[i].dst = p
                                    /\ lg[i].frame = SetFrame(t.cmd.key, t.cmd.val)
                                    /\ lg[i].ok})
                     = Cardinality({i \in 1 .. Len(replicas) : replicas[i] = p})
      ]_vars

\* C33: a SET whose replication write or +OK write fails leaves its value in
\* the store: the step in which the handler returns the error changes no
\* entry, and a GET that finds a live entry answers with its value whether
\* or not the SET that wrote it was acknowledged.
C33_FailedSetStaysInStore ==
    [][\A a \in Addrs :
         LET t == task[a]
             t2 == task'[a]
             e == get(store, t.cmd.key)
         IN  /\ (t.cmd.kind = "SET" /\ Writing(t) /\ Returns(a) /\ t2.pc = "closed")
                => /\ store' = store
                   /\ get(store', t.cmd.key) # None
                   /\ get(store', t.cmd.key)[1].val = t.cmd.val
             /\ (t.cmd.kind = "GET" /\ t.pc = "apply" /\ Writing(t2)
                   /\ e # None /\ valid(e[1], now))
                => t2.stage = "get_val" /\ t2.got = e[1].val
      ]_vars

\* The only SET so far was sent by a client whose handler returned an error,
\* and the GET of another client is being answered with its value.
C33_Witness ==
    \E a \in Addrs, b \in Addrs :
        /\ a # b
        /\ cmds = 2
        /\ commits = 1
        /\ task[a].pc = "closed"
        /\ task[b].cmd.kind = "GET"
        /\ task[b].stage = "get_val"
        /\ lastSet[task[b].cmd.key] # None
        /\ task[b].got = lastSet[task[b].cmd.key][1].val

\* C30: command parsing is total: whatever Array frame a connection task
\* reads, from_frame returns a command or an error value that becomes an
\* Error reply, and the task goes on; reading a frame never panics the task.
C30_FromFrameTotal ==
    [][\A a \in Addrs :
         task[a].pc = "reading"
            => /\ task'[a].pc # "panicked"
               /\ task'[a].cmd.kind = "invalid"
                     => task'[a].pc = "w_get" /\ task'[a].stage = "parse_err"
      ]_vars

\* C27: a replication SET frame is written only to an address of the replica
\* list, and an address enters the list only in the step in which the File
\* write of its own PSYNC handler returns ok, after the FULLRESYNC line of
\* that handler: no peer is written a SET frame before both.
C27_NoSetBeforeSnapshot ==
    /\ [](\A a \in Addrs :
            /\ (task[a].stage = "set_repl" /\ Writing(task[a]))
                  => WDst(a, task[a]) \in Range(replicas)
            /\ lastRecv[a] > 0 => a \in Range(replicas))
    /\ [][\A p \in Addrs :
            (p \in Range(replicas') /\ p \notin Range(replicas))
                => LogAfter(p) = <<PsyncLine(p), PsyncFile(p)>>
         ]_vars

\* The SET of another client was written to a replica and its handler is
\* about to reply, while the replica's connection waits for the next frame.
C27_Witness ==
    \E a \in Addrs, p \in Addrs :
        /\ a # p
        /\ task[a].cmd.kind = "SET"
        /\ task[a].stage = "set_ok"
        /\ task[a].reps = <<p>>
        /\ lastRecv[p] = task[a].n
        /\ task[p].pc = "reading"

\* ------------------------------------------------------------------ codec
\* The bytes the peer's writer produces for its frame, and whether the codec
\* reads them, in the mode of the first call, as one frame and nothing more.
Encoding == write_frame(peerFrame)
Decoded == parse(Encoding, 1, rf_expect_file)
ValidEncoding == Decoded.r = "Ok" /\ Decoded.pos = Len(Encoding) + 1

\* C24: read_frame returns None (EOF) only after a read of zero bytes with an
\* empty buffer; a read of zero bytes returns None when the buffer is empty
\* and the error "Connection reset by peer" when it holds the beginning of
\* a frame; a frame is returned only when all bytes of its encoding are in
\* the buffer.
C24_EofAndReset ==
    [][/\ (rfn' # rfn /\ rfres'.kind = "None")
            => (rfpc = "read" /\ stream = <<>> /\ streamFin /\ buffer = <<>>)
       /\ (rfpc = "read" /\ stream = <<>> /\ streamFin /\ rfpc' # rfpc)
            => /\ rfn' = rfn + 1
               /\ rfres' = IF buffer = <<>> THEN GotNone
                           ELSE GotErr("Connection reset by peer")
       /\ (rfpc = "read" /\ rfn' # rfn) => (stream = <<>> /\ streamFin)
       /\ (rfn = 0 /\ rfn' = 1 /\ rfres'.kind = "Frame" /\ ValidEncoding)
            => buffer = Encoding
      ]_vars

\* The peer closed in the middle of a frame and read_frame returned the
\* reset error with the beginning of the frame in the buffer.
C24_Witness ==
    /\ rfres = GotErr("Connection reset by peer")
    /\ buffer # <<>>
    /\ Len(buffer) < Len(Encoding)
    /\ ValidEncoding

\* C25: when the bytes the writer produced for a frame are in the buffer
\* (expect_file set for a File and unset otherwise), read_frame returns a
\* frame equal to the one written.
C25_RoundTrip ==
    [][(rfpc = "parse" /\ rfn = 0 /\ rfpc' # rfpc
        /\ rf_expect_file = (peerFrame.t = "File") /\ buffer = Encoding)
         => (rfres'.kind = "Frame" /\ rfres'.frame = peerFrame)
      ]_vars

\* C26: with a proper prefix of a valid encoding in the buffer parse_frame
\* reports that the frame is incomplete (read_frame goes on to read, no
\* frame, no error) and leaves the buffer as it is; with the whole encoding
\* in the buffer the frame is returned.
C26_PrefixIncomplete ==
    [][(rfpc = "parse" /\ rfn = 0 /\ rfpc' # rfpc /\ ValidEncoding)
         => IF Len(buffer) < Len(Encoding)
            THEN rfpc' = "read" /\ buffer' = buffer /\ rfres' = rfres
            ELSE rfres'.kind = "Frame" /\ rfres'.frame = Decoded.v
      ]_vars

\* ------------------------------------------------------------------ replica worker
\* The frame ReplConf::apply_replica writes for the option getack.
AckFrame == Array(<<Bulk(Some("REPLCONF")), Bulk(Some("ACK")), Bulk(Some("0"))>>)

\* Step in which the apply loop has taken a frame and is back at read_frame.
WLoops == wpc.op = "apply" /\ wpc'.op = "apply" /\ wpc'.n = wpc.n + 1

\* C22: in the apply loop nothing is written upstream; a frame that parses
\* to SET k v puts v under k in the replica's store and leaves the other keys
\* alone, any other frame leaves the store unchanged, and in both cases the
\* loop goes on; the worker leaves the loop only by returning, at EOF or on
\* an I/O error.
C22_ApplyLoop ==
    [][wpc.op = "apply" =>
         /\ wsent' = wsent
         /\ wpc' # wpc =>
              IF wcmd' # wcmd \/ WLoops
              THEN /\ WLoops
                   /\ IF wcmd'.kind = "SET"
                      THEN /\ wstore'[wcmd'.key] # None
                           /\ wstore'[wcmd'.key][1].val = wcmd'.val
                           /\ \A k \in Keys \ {wcmd'.key} : wstore'[k] = wstore[k]
                      ELSE wstore' = wstore
              ELSE wstore' = wstore /\ wpc'.op \in {"done", "err"}
      ]_vars

\* C23: a REPLCONF getack read by the replica from its upstream is answered
\* on that connection with the array REPLCONF ACK 0.
C23_GetAckAnswered ==
    [][(WLoops /\ wcmd'.kind = "REPLCONF" /\ wcmd'.section = "getack")
         => wsent' = Append(wsent, AckFrame)
      ]_vars

\* The reply the handshake expects to frame n.
ExpectedReply(n) ==
    IF n = 1 THEN Simple("PONG")
    ELSE IF n < 4 THEN Simple("OK")
    ELSE IF n = 4 THEN FullResyncFrame(MasterReplId, 0)
    ELSE File(EMPTY_RDB_FILE_BYTES)

\* C7: the frames sent upstream are PING, REPLCONF listening-port, REPLCONF
\* capa psync2, PSYNC ? -1 in this order, and frame n+1 is sent only after
\* the expected reply to frame n was received.
C7_HandshakeAwaitsReplies ==
    /\ Len(wsent) <= 4
    /\ \A n \in 1 .. Len(wsent) : wsent[n] = HandshakeFrames[n]
    /\ \A n \in 2 .. Len(wsent) :
         /\ Len(wrecv) >= n - 1
         /\ wrecv[n - 1] = Some(ExpectedReply(n - 1))

\* C8: after a handshake reply that is a frame of another shape than the
\* expected one, the worker has terminated with an error and is not in the
\* apply loop.
C8_BadReplyTerminates ==
    (\E n \in 1 .. Len(wrecv) : wrecv[n] # None /\ wrecv[n][1] # ExpectedReply(n))
        => wpc.op \in {"err", "panicked"}

====
